---- MODULE Spec2Model ----
(***************************************************************************)
(* A model of src/issue_fixer.py: the start-up credential checks, the API  *)
(* probe, issue discovery, the per-issue provider loop of ai_fix_code with *)
(* its text clean-up and validation, and the clone .. pull-request         *)
(* sequence of submit_fix with its try/except/finally.                     *)
(*                                                                         *)
(* Text is modelled at character level: a text is a sequence of            *)
(* one-character strings, and every regular expression of the clean-up is  *)
(* written out as the scan Python's re module performs.                    *)
(***************************************************************************)
EXTENDS Integers, Sequences, FiniteSets, TLC

(***************************************************************************)
(* Text helpers (Python str / re primitives)                               *)
(***************************************************************************)
NL == "\n"
\* the backquote character (U+0060), which a TLA+ string cannot contain
BQ == "BACKQUOTE"
SP == " "

\* s[i..] begins with p
MatchAt(s, i, p) ==
    /\ i >= 1
    /\ i + Len(p) - 1 <= Len(s)
    /\ \A k \in 1..Len(p) : s[i + k - 1] = p[k]

\* str.startswith
StartsWith(s, p) == MatchAt(s, 1, p)

\* the in operator on str
Contains(s, p) == \E i \in 1..(Len(s) - Len(p) + 1) : MatchAt(s, i, p)

\* s[i-1:] as a slice (1-based i), empty when i is past the end
Slice(s, i) == SubSeq(s, i, Len(s))

SetMin(S) == CHOOSE i \in S : \A j \in S : i <= j
SetMax(S) == CHOOSE i \in S : \A j \in S : i >= j

\* first index >= from where p occurs in s, 0 if none (str.find, 1-based)
Find(s, p, from) ==
    LET S == {i \in from..(Len(s) - Len(p) + 1) : MatchAt(s, i, p)}
    IN  IF S = {} THEN 0 ELSE SetMin(S)

IsSpace(c) == c \in {SP, NL, "\t", "\r"}

\* str.strip()
Strip(s) ==
    LET K == {i \in 1..Len(s) : ~IsSpace(s[i])}
    IN  IF K = {} THEN <<>> ELSE SubSeq(s, SetMin(K), SetMax(K))

\* str.splitlines() for texts whose only line break is "\n"
RECURSIVE SplitFrom(_, _)
SplitFrom(s, i) ==
    IF i > Len(s) THEN <<>>
    ELSE LET n == Find(s, <<NL>>, i)
         IN  IF n = 0 THEN <<Slice(s, i)>>
             ELSE <<SubSeq(s, i, n - 1)>> \o SplitFrom(s, n + 1)

splitlines(s) == SplitFrom(s, 1)

\* '\n'.join(ls)
RECURSIVE join(_)
join(ls) ==
    IF ls = <<>> THEN <<>>
    ELSE IF Len(ls) = 1 THEN ls[1]
    ELSE ls[1] \o <<NL>> \o join(Slice(ls, 2))

\* ^ under re.MULTILINE
LineStart(s, i) == i = 1 \/ (i > 1 /\ i <= Len(s) + 1 /\ s[i - 1] = NL)

\* $ under re.MULTILINE, tested at the position i
LineEnd(s, i) == i = Len(s) + 1 \/ (i <= Len(s) /\ s[i] = NL)

\* $ without re.MULTILINE: the end, or just before a final line break
TextEnd(s, i) == i = Len(s) + 1 \/ (i = Len(s) /\ s[i] = NL)

IsDigit(c) == c \in {"0", "1", "2", "3", "4", "5", "6", "7", "8", "9"}

\* the position after the longest run of digits of s that starts at i
DigitsEnd(s, i) ==
    SetMin({k \in i..(Len(s) + 1) : k = Len(s) + 1 \/ ~IsDigit(s[k])})

(***************************************************************************)
(* String literals of the source, as character sequences                   *)
(***************************************************************************)
\* '--- a/'
MINUS_A ==
    <<"-", "-", "-", " ", "a", "/">>

\* '+++ b/'
PLUS_B ==
    <<"+", "+", "+", " ", "b", "/">>

\* '--- a/README.md'
MINUS_HEADER ==
    <<"-", "-", "-", " ", "a", "/", "R", "E", "A", "D", "M", "E", ".", "m",
      "d">>

\* '+++ b/README.md'
PLUS_HEADER ==
    <<"+", "+", "+", " ", "b", "/", "R", "E", "A", "D", "M", "E", ".", "m",
      "d">>

\* '++++'
PLUS4 ==
    <<"+", "+", "+", "+">>

\* '+++'
PLUS3 ==
    <<"+", "+", "+">>

\* '<fence>'
FENCE ==
    <<BQ, BQ, BQ>>

\* '<fence>diff\n'
FENCE_DIFF_NL ==
    <<BQ, BQ, BQ, "d", "i", "f", "f", NL>>

\* '<fence>\n'
FENCE_NL ==
    <<BQ, BQ, BQ, NL>>

\* 'diff --git'
DIFF_GIT ==
    <<"d", "i", "f", "f", " ", "-", "-", "g", "i", "t">>

\* 'index'
INDEX ==
    <<"i", "n", "d", "e", "x">>

\* 'new file mode'
NEW_FILE_MODE ==
    <<"n", "e", "w", " ", "f", "i", "l", "e", " ", "m", "o", "d", "e">>

\* '<fence>bash\n'
FENCE_BASH_NL ==
    <<BQ, BQ, BQ, "b", "a", "s", "h", NL>>

\* '<fence>python\n'
FENCE_PYTHON_NL ==
    <<BQ, BQ, BQ, "p", "y", "t", "h", "o", "n", NL>>

\* '<fence>md\n'
FENCE_MD_NL ==
    <<BQ, BQ, BQ, "m", "d", NL>>

\* '\n<fence>'
NL_FENCE ==
    <<NL, BQ, BQ, BQ>>

\* '--- /dev/null'
DEV_NULL ==
    <<"-", "-", "-", " ", "/", "d", "e", "v", "/", "n", "u", "l", "l">>

\* '--- /dev/null\n'
DEV_NULL_NL ==
    <<"-", "-", "-", " ", "/", "d", "e", "v", "/", "n", "u", "l", "l", NL>>

\* '...'
ELLIPSIS ==
    <<".", ".", ".">>

\* 'Note'
W_NOTE ==
    <<"N", "o", "t", "e">>

\* 'This'
W_THIS ==
    <<"T", "h", "i", "s">>

\* 'See'
W_SEE ==
    <<"S", "e", "e">>

\* 'Here'
W_HERE ==
    <<"H", "e", "r", "e">>

\* '#'
HASH ==
    <<"#">>

\* 'Here is'
HERE_IS ==
    <<"H", "e", "r", "e", " ", "i", "s">>

\* 'Since'
SINCE ==
    <<"S", "i", "n", "c", "e">>

\* 'Let'
LET_ ==
    <<"L", "e", "t">>

\* 'Or'
OR_ ==
    <<"O", "r">>

\* 'And'
AND_ ==
    <<"A", "n", "d">>

\* ':'
COLON ==
    <<":">>

\* '!'
BANG ==
    <<"!">>

\* '\n--- a/'
NL_MINUS_A ==
    <<NL, "-", "-", "-", " ", "a", "/">>

\* '@@ -'
HUNK_OPEN ==
    <<"@", "@", " ", "-">>

\* ' +'
HUNK_MID ==
    <<" ", "+">>

\* ' @@'
HUNK_CLOSE ==
    <<" ", "@", "@">>

\* '-Helllo World'
OLD_LINE ==
    <<"-", "H", "e", "l", "l", "l", "o", " ", "W", "o", "r", "l", "d">>

\* '+Hello World'
NEW_LINE ==
    <<"+", "H", "e", "l", "l", "o", " ", "W", "o", "r", "l", "d">>

\* 'bash'
BASH ==
    <<"b", "a", "s", "h">>

\* 'python'
PYTHON ==
    <<"p", "y", "t", "h", "o", "n">>

\* 'Fix typo in README'
SHIM_TITLE ==
    <<"F", "i", "x", " ", "t", "y", "p", "o", " ", "i", "n", " ", "R", "E",
      "A", "D", "M", "E">>

\* the literal returned at lines 64-68
FALLBACK_PATCH ==
    <<"-", "-", "-", " ", "a", "/", "R", "E", "A", "D", "M", "E", ".", "m",
      "d", NL, "+", "+", "+", " ", "b", "/", "R", "E", "A", "D", "M", "E",
      ".", "m", "d", NL, "@", "@", " ", "-", "1", ",", "1", " ", "+", "1",
      ",", "1", " ", "@", "@", NL, "-", "H", "e", "l", "l", "l", "o", " ",
      "W", "o", "r", "l", "d", NL, "+", "H", "e", "l", "l", "o", " ", "W",
      "o", "r", "l", "d">>

(***************************************************************************)
(* The clean-up of a provider's text, lines 113-125, one operator per      *)
(* statement                                                               *)
(***************************************************************************)

\* re.sub('^' + prefix + '.*?\n', header + '\n', content, 1), no MULTILINE:
\* only a match at the very start of the text, through its first line break
SubHeader(content, prefix, header) ==
    LET n == Find(content, <<NL>>, Len(prefix) + 1)
    IN  IF StartsWith(content, prefix) /\ n # 0
        THEN header \o <<NL>> \o Slice(content, n + 1)
        ELSE content

\* line 114
SubPlusHeader(content) == SubHeader(content, PLUS_B, PLUS_HEADER)

\* line 115
SubMinusHeader(content) == SubHeader(content, MINUS_A, MINUS_HEADER)

\* line 117 before .strip(): '^<fence>(diff)?\n|<fence>$' under MULTILINE
FenceEnd(s, i) ==
    IF LineStart(s, i) /\ MatchAt(s, i, FENCE_DIFF_NL)
    THEN i + Len(FENCE_DIFF_NL)
    ELSE IF LineStart(s, i) /\ MatchAt(s, i, FENCE_NL)
    THEN i + Len(FENCE_NL)
    ELSE IF MatchAt(s, i, FENCE) /\ LineEnd(s, i + Len(FENCE))
    THEN i + Len(FENCE)
    ELSE 0


\* '^diff --git.*\n|^index.*\n|^new file mode.*\n' under MULTILINE: a line
\* that begins with one of the words, through the line break that ends it
MetaEnd(s, i) ==
    IF /\ LineStart(s, i)
       /\ \E w \in {DIFF_GIT, INDEX, NEW_FILE_MODE} : MatchAt(s, i, w)
       /\ Find(s, <<NL>>, i) # 0
    THEN Find(s, <<NL>>, i) + 1
    ELSE 0


\* '<fence>(bash|python|md)\n.*?\n<fence>' under DOTALL: the position after
\* the block that opens at i, 0 if none opens there
BlockEnd(s, i) ==
    LET tags == {t \in {FENCE_BASH_NL, FENCE_PYTHON_NL, FENCE_MD_NL} :
                   MatchAt(s, i, t)}
    IN  IF tags = {} THEN 0
        ELSE LET t == CHOOSE x \in tags : TRUE
                 c == Find(s, NL_FENCE, i + Len(t))
             IN  IF c = 0 THEN 0 ELSE c + Len(NL_FENCE)



\* one of Note, This, See, Here occurs in s at or after the position i
WordFrom(s, i) ==
    \E w \in {W_NOTE, W_THIS, W_SEE, W_HERE} : Find(s, w, i) # 0

\* line 121: '\.\.\.$|\n.*?(Note|This|See|Here).*' under DOTALL (and no
\* MULTILINE): an ellipsis at the end of the text, or everything from a
\* line break on when one of the words occurs anywhere after it
ProseEnd(s, i) ==
    IF MatchAt(s, i, ELLIPSIS) /\ TextEnd(s, i + Len(ELLIPSIS))
    THEN i + Len(ELLIPSIS)
    ELSE IF s[i] = NL /\ WordFrom(s, i + 1) THEN Len(s) + 1
    ELSE 0

\* the position after the match of the pattern pat that starts at k in s,
\* 0 when pat does not match there; pat names one of the regular
\* expressions of lines 116-121
MatchEnd(pat, s, k) ==
    IF pat = "plus4" THEN (IF MatchAt(s, k, PLUS4) THEN k + Len(PLUS4) ELSE 0)
    ELSE IF pat = "fence" THEN FenceEnd(s, k)
    ELSE IF pat = "meta" THEN MetaEnd(s, k)
    ELSE IF pat = "block" THEN BlockEnd(s, k)
    ELSE IF pat = "dev_null"
    THEN (IF MatchAt(s, k, DEV_NULL_NL) THEN k + Len(DEV_NULL_NL) ELSE 0)
    ELSE ProseEnd(s, k)

\* re.sub(pat, r, s) from the position i on: every leftmost non-overlapping
\* match is replaced by r, the scan resuming after it
RECURSIVE SubFrom(_, _, _, _)
SubFrom(s, i, pat, r) ==
    LET M == {k \in i..Len(s) : MatchEnd(pat, s, k) # 0}
    IN  IF M = {} THEN Slice(s, i)
        ELSE LET m == SetMin(M)
             IN  SubSeq(s, i, m - 1) \o r \o SubFrom(s, MatchEnd(pat, s, m), pat, r)

\* line 116
SubPlus4(content) == SubFrom(content, 1, "plus4", PLUS3)

\* line 117
SubFence(content) == Strip(SubFrom(content, 1, "fence", <<>>))

\* line 118
SubMeta(content) == SubFrom(content, 1, "meta", <<>>)

\* line 119
SubBlock(content) == SubFrom(content, 1, "block", <<>>)

\* line 120
SubDevNull(content) == SubFrom(content, 1, "dev_null", <<>>)

\* line 121
SubProse(content) == SubFrom(content, 1, "prose", <<>>)

\* line 123
FillerPrefixes == {HASH, HERE_IS, SINCE, LET_, OR_, AND_, COLON, BANG}

\* line 125: re.match('--- a/.*\n.*\n--- a/', content, DOTALL), a test of
\* the whole text, the same for every line
TwoMinusHeaders(content) ==
    /\ StartsWith(content, MINUS_A)
    /\ \E n \in (Len(MINUS_A) + 1)..Len(content) :
          content[n] = NL /\ Find(content, NL_MINUS_A, n + 1) # 0

\* the condition of the generator of lines 122-125
KeepLine(line, content) ==
    /\ ~\E p \in FillerPrefixes : StartsWith(line, p)
    /\ Strip(line) \notin {FENCE, <<>>}
    /\ ~TwoMinusHeaders(content)

\* lines 122-125
FilterLines(content) ==
    join(SelectSeq(splitlines(content), LAMBDA line : KeepLine(line, content)))

\* lines 107-125: raw_content (stripped at line 107) to the cleaned content
Clean(raw) ==
    FilterLines(SubProse(SubDevNull(SubBlock(SubMeta(SubFence(SubPlus4(
        SubMinusHeader(SubPlusHeader(Strip(raw))))))))))

(***************************************************************************)
(* The validation of the cleaned content, lines 131-138                    *)
(***************************************************************************)

\* re.match('@@ -\d+,\d+ \+\d+,\d+ @@', line): a match of a prefix of line
HunkHeader(line) ==
    LET a1 == Len(HUNK_OPEN) + 1
        a2 == DigitsEnd(line, a1)
        b1 == a2 + 1
        b2 == DigitsEnd(line, b1)
        c1 == b2 + Len(HUNK_MID)
        c2 == DigitsEnd(line, c1)
        d1 == c2 + 1
        d2 == DigitsEnd(line, d1)
    IN  /\ StartsWith(line, HUNK_OPEN)
        /\ a2 > a1
        /\ MatchAt(line, a2, <<",">>)
        /\ b2 > b1
        /\ MatchAt(line, b2, HUNK_MID)
        /\ c2 > c1
        /\ MatchAt(line, c2, <<",">>)
        /\ d2 > d1
        /\ MatchAt(line, d2, HUNK_CLOSE)

\* Disqualifying without the fence and the four plus signs
Disqualifying_MarkersLeftOut ==
    {HASH, HERE_IS, NEW_FILE_MODE, DEV_NULL, BASH, PYTHON, ELLIPSIS}

\* the list of line 138
Disqualifying ==
    {FENCE, HASH, HERE_IS, NEW_FILE_MODE, DEV_NULL, BASH, PYTHON, PLUS4,
     ELLIPSIS}

\* Valid with the line count of line 132 tested as a lower bound
Valid_AtLeastFive(content) ==
    LET lines == splitlines(content)
    IN  /\ Len(lines) >= 5
        /\ lines[1] = MINUS_HEADER
        /\ lines[2] = PLUS_HEADER
        /\ HunkHeader(lines[3])
        /\ StartsWith(lines[4], OLD_LINE)
        /\ StartsWith(lines[5], NEW_LINE)
        /\ ~\E d \in Disqualifying : Contains(content, d)

\* Valid without the tests of lines 136 and 137
Valid_OldNewUnchecked(content) ==
    LET lines == splitlines(content)
    IN  /\ Len(lines) = 5
        /\ lines[1] = MINUS_HEADER
        /\ lines[2] = PLUS_HEADER
        /\ HunkHeader(lines[3])
        /\ ~\E d \in Disqualifying : Contains(content, d)

\* the condition of lines 132-138
Valid(content) ==
    LET lines == splitlines(content)
    IN  /\ Len(lines) = 5
        /\ lines[1] = MINUS_HEADER
        /\ lines[2] = PLUS_HEADER
        /\ HunkHeader(lines[3])
        /\ StartsWith(lines[4], OLD_LINE)
        /\ StartsWith(lines[5], NEW_LINE)
        /\ ~\E d \in Disqualifying : Contains(content, d)

(***************************************************************************)
(* Provider replies the model draws from: the generated-text field of a    *)
(* completion response                                                     *)
(***************************************************************************)
\* the patch of the prompt's example, as asked for
RAW_EXACT ==
    <<"-", "-", "-", " ", "a", "/", "R", "E", "A", "D", "M", "E", ".", "m",
      "d", NL, "+", "+", "+", " ", "b", "/", "R", "E", "A", "D", "M", "E",
      ".", "m", "d", NL, "@", "@", " ", "-", "1", ",", "1", " ", "+", "1",
      ",", "1", " ", "@", "@", NL, "-", "H", "e", "l", "l", "l", "o", " ",
      "W", "o", "r", "l", "d", NL, "+", "H", "e", "l", "l", "o", " ", "W",
      "o", "r", "l", "d">>

\* the patch inside a diff fence
RAW_FENCED ==
    <<BQ, BQ, BQ, "d", "i", "f", "f", NL, "-", "-", "-", " ", "a", "/", "R",
      "E", "A", "D", "M", "E", ".", "m", "d", NL, "+", "+", "+", " ", "b",
      "/", "R", "E", "A", "D", "M", "E", ".", "m", "d", NL, "@", "@", " ",
      "-", "1", ",", "1", " ", "+", "1", ",", "1", " ", "@", "@", NL, "-",
      "H", "e", "l", "l", "l", "o", " ", "W", "o", "r", "l", "d", NL, "+",
      "H", "e", "l", "l", "o", " ", "W", "o", "r", "l", "d", NL, BQ, BQ, BQ>>

\* the patch with a four-plus header
RAW_PLUS4 ==
    <<"-", "-", "-", " ", "a", "/", "R", "E", "A", "D", "M", "E", ".", "m",
      "d", NL, "+", "+", "+", "+", " ", "b", "/", "R", "E", "A", "D", "M",
      "E", ".", "m", "d", NL, "@", "@", " ", "-", "1", ",", "1", " ", "+",
      "1", ",", "1", " ", "@", "@", NL, "-", "H", "e", "l", "l", "l", "o",
      " ", "W", "o", "r", "l", "d", NL, "+", "H", "e", "l", "l", "o", " ",
      "W", "o", "r", "l", "d">>

\* the patch with both headers naming another file
RAW_OTHER_PATH ==
    <<"-", "-", "-", " ", "a", "/", "d", "o", "c", "s", "/", "g", "u", "i",
      "d", "e", ".", "m", "d", NL, "+", "+", "+", " ", "b", "/", "d", "o",
      "c", "s", "/", "g", "u", "i", "d", "e", ".", "m", "d", NL, "@", "@",
      " ", "-", "1", ",", "1", " ", "+", "1", ",", "1", " ", "@", "@", NL,
      "-", "H", "e", "l", "l", "l", "o", " ", "W", "o", "r", "l", "d", NL,
      "+", "H", "e", "l", "l", "o", " ", "W", "o", "r", "l", "d">>

\* the patch followed by a line of prose
RAW_NOTE ==
    <<"-", "-", "-", " ", "a", "/", "R", "E", "A", "D", "M", "E", ".", "m",
      "d", NL, "+", "+", "+", " ", "b", "/", "R", "E", "A", "D", "M", "E",
      ".", "m", "d", NL, "@", "@", " ", "-", "1", ",", "1", " ", "+", "1",
      ",", "1", " ", "@", "@", NL, "-", "H", "e", "l", "l", "l", "o", " ",
      "W", "o", "r", "l", "d", NL, "+", "H", "e", "l", "l", "o", " ", "W",
      "o", "r", "l", "d", NL, "N", "o", "t", "e", ":", " ", "t", "h", "i",
      "s", " ", "f", "i", "x", "e", "s", " ", "t", "h", "e", " ", "t", "y",
      "p", "o">>

\* the patch followed by an ellipsis
RAW_ELLIPSIS ==
    <<"-", "-", "-", " ", "a", "/", "R", "E", "A", "D", "M", "E", ".", "m",
      "d", NL, "+", "+", "+", " ", "b", "/", "R", "E", "A", "D", "M", "E",
      ".", "m", "d", NL, "@", "@", " ", "-", "1", ",", "1", " ", "+", "1",
      ",", "1", " ", "@", "@", NL, "-", "H", "e", "l", "l", "l", "o", " ",
      "W", "o", "r", "l", "d", NL, "+", "H", "e", "l", "l", "o", " ", "W",
      "o", "r", "l", "d", ".", ".", ".">>

\* prose with no diff in it
RAW_PROSE ==
    <<"I", " ", "c", "o", "u", "l", "d", " ", "n", "o", "t", " ", "f", "i",
      "n", "d", " ", "t", "h", "e", " ", "t", "y", "p", "o">>

\* the patch after git's metadata lines
RAW_GIT_META ==
    <<"d", "i", "f", "f", " ", "-", "-", "g", "i", "t", " ", "a", "/", "R",
      "E", "A", "D", "M", "E", ".", "m", "d", " ", "b", "/", "R", "E", "A",
      "D", "M", "E", ".", "m", "d", NL, "i", "n", "d", "e", "x", " ", "1",
      "a", "2", "b", "3", "c", "4", ".", ".", "5", "d", "6", "e", "7", "f",
      "8", " ", "1", "0", "0", "6", "4", "4", NL, "-", "-", "-", " ", "a",
      "/", "R", "E", "A", "D", "M", "E", ".", "m", "d", NL, "+", "+", "+",
      " ", "b", "/", "R", "E", "A", "D", "M", "E", ".", "m", "d", NL, "@",
      "@", " ", "-", "1", ",", "1", " ", "+", "1", ",", "1", " ", "@", "@",
      NL, "-", "H", "e", "l", "l", "l", "o", " ", "W", "o", "r", "l", "d",
      NL, "+", "H", "e", "l", "l", "o", " ", "W", "o", "r", "l", "d">>

\* a diff of two files
RAW_TWO_FILES ==
    <<"-", "-", "-", " ", "a", "/", "R", "E", "A", "D", "M", "E", ".", "m",
      "d", NL, "+", "+", "+", " ", "b", "/", "R", "E", "A", "D", "M", "E",
      ".", "m", "d", NL, "@", "@", " ", "-", "1", ",", "1", " ", "+", "1",
      ",", "1", " ", "@", "@", NL, "-", "H", "e", "l", "l", "l", "o", " ",
      "W", "o", "r", "l", "d", NL, "+", "H", "e", "l", "l", "o", " ", "W",
      "o", "r", "l", "d", NL, "-", "-", "-", " ", "a", "/", "b", ".", "m",
      "d", NL, "+", "+", "+", " ", "b", "/", "b", ".", "m", "d", NL, "@",
      "@", " ", "-", "1", ",", "1", " ", "+", "1", ",", "1", " ", "@", "@",
      NL, "-", "x", NL, "+", "y">>

\* the patch with its removed and added lines swapped
RAW_SWAPPED ==
    <<"-", "-", "-", " ", "a", "/", "R", "E", "A", "D", "M", "E", ".", "m",
      "d", NL, "+", "+", "+", " ", "b", "/", "R", "E", "A", "D", "M", "E",
      ".", "m", "d", NL, "@", "@", " ", "-", "1", ",", "1", " ", "+", "1",
      ",", "1", " ", "@", "@", NL, "+", "H", "e", "l", "l", "o", " ", "W",
      "o", "r", "l", "d", NL, "-", "H", "e", "l", "l", "l", "o", " ", "W",
      "o", "r", "l", "d">>

\* the patch with a sixth line
RAW_SIX_LINES ==
    <<"-", "-", "-", " ", "a", "/", "R", "E", "A", "D", "M", "E", ".", "m",
      "d", NL, "+", "+", "+", " ", "b", "/", "R", "E", "A", "D", "M", "E",
      ".", "m", "d", NL, "@", "@", " ", "-", "1", ",", "1", " ", "+", "1",
      ",", "1", " ", "@", "@", NL, "-", "H", "e", "l", "l", "l", "o", " ",
      "W", "o", "r", "l", "d", NL, "+", "H", "e", "l", "l", "o", " ", "W",
      "o", "r", "l", "d", NL, " ", "c", "o", "n", "t", "e", "x", "t">>

\* the patch with a hunk header without counts
RAW_NO_COUNTS ==
    <<"-", "-", "-", " ", "a", "/", "R", "E", "A", "D", "M", "E", ".", "m",
      "d", NL, "+", "+", "+", " ", "b", "/", "R", "E", "A", "D", "M", "E",
      ".", "m", "d", NL, "@", "@", " ", "-", "1", " ", "+", "1", " ", "@",
      "@", NL, "-", "H", "e", "l", "l", "l", "o", " ", "W", "o", "r", "l",
      "d", NL, "+", "H", "e", "l", "l", "o", " ", "W", "o", "r", "l", "d">>

\* a patch of the third line, which the validation accepts as well
RAW_LINE3 ==
    <<"-", "-", "-", " ", "a", "/", "R", "E", "A", "D", "M", "E", ".", "m",
      "d", NL, "+", "+", "+", " ", "b", "/", "R", "E", "A", "D", "M", "E",
      ".", "m", "d", NL, "@", "@", " ", "-", "3", ",", "1", " ", "+", "3",
      ",", "1", " ", "@", "@", " ", "I", "n", "t", "r", "o", NL, "-", "H",
      "e", "l", "l", "l", "o", " ", "W", "o", "r", "l", "d", ",", " ", "a",
      "g", "a", "i", "n", NL, "+", "H", "e", "l", "l", "o", " ", "W", "o",
      "r", "l", "d", ",", " ", "a", "g", "a", "i", "n">>

\* the patch with a remark after a hash sign on its last line
RAW_HASH ==
    <<"-", "-", "-", " ", "a", "/", "R", "E", "A", "D", "M", "E", ".", "m",
      "d", NL, "+", "+", "+", " ", "b", "/", "R", "E", "A", "D", "M", "E",
      ".", "m", "d", NL, "@", "@", " ", "-", "1", ",", "1", " ", "+", "1",
      ",", "1", " ", "@", "@", NL, "-", "H", "e", "l", "l", "l", "o", " ",
      "W", "o", "r", "l", "d", NL, "+", "H", "e", "l", "l", "o", " ", "W",
      "o", "r", "l", "d", " ", "#", " ", "t", "y", "p", "o", " ", "f", "i",
      "x", "e", "d">>

RawTexts ==
    <<RAW_EXACT, RAW_FENCED, RAW_PLUS4, RAW_OTHER_PATH,
      RAW_NOTE, RAW_ELLIPSIS, RAW_PROSE, RAW_GIT_META,
      RAW_TWO_FILES, RAW_SWAPPED, RAW_SIX_LINES, RAW_NO_COUNTS,
      RAW_LINE3, RAW_HASH>>

\* 'API test successful', line 54
PROBE_EXPECTED ==
    <<"A", "P", "I", " ", "t", "e", "s", "t", " ", "s", "u", "c", "c", "e",
      "s", "s", "f", "u", "l">>

\* a reply to the probe that holds the expected words
PROBE_REPLY_OK ==
    <<"A", "P", "I", " ", "t", "e", "s", "t", " ", "s", "u", "c", "c", "e",
      "s", "s", "f", "u", "l", ".">>

\* a reply to the probe that does not
PROBE_REPLY_OTHER ==
    <<"H", "e", "l", "l", "o">>

\* an issue title that holds 'Fix typo in README'
TITLE_TYPO ==
    <<"F", "i", "x", " ", "t", "y", "p", "o", " ", "i", "n", " ", "R", "E",
      "A", "D", "M", "E", ".", "m", "d">>

\* an issue title that does not
TITLE_BUG ==
    <<"T", "y", "p", "o", " ", "o", "n", " ", "t", "h", "e", " ", "f", "r",
      "o", "n", "t", " ", "p", "a", "g", "e">>

\* an issue body shorter than 50 characters
BODY_SHORT ==
    <<"H", "e", "l", "l", "l", "o", " ", "s", "h", "o", "u", "l", "d", " ",
      "b", "e", " ", "H", "e", "l", "l", "o">>

(***************************************************************************)
(* Bounds and program constants                                            *)
(***************************************************************************)
\* the longest provider list the model runs with (the source lists one
\* provider; the loop of line 90 is written for any number of them)
MaxProviders == 2
\* the most issues the issue source answers with
MaxFetched == 4
\* response.json()[:3], line 220
IssueCap == 3
\* time.sleep(2), line 143
Backoff == 2

\* Python's None; a value v that may be None is held as <<v>>
None == <<>>
Some(v) == <<v>>

(***************************************************************************)
(* Issues                                                                  *)
(***************************************************************************)
\* the body of issue id: issues 1 and 3 open with the same 50 characters
\* and differ in the 51st
BodyOf(id) ==
    IF id \in {1, 3}
    THEN [k \in 1..51 |-> IF k <= 50 THEN "a" ELSE IF id = 1 THEN "b" ELSE "c"]
    ELSE BODY_SHORT

\* the fields of an issue that the program reads
Issue(id) ==
    [id     |-> id,
     number |-> 100 + id,
     title  |-> IF id = 2 THEN TITLE_TYPO ELSE TITLE_BUG,
     body   |-> BodyOf(id)]

\* the ascending sequence of a set of numbers
RECURSIVE Ascending(_)
Ascending(S) ==
    IF S = {} THEN <<>> ELSE <<SetMin(S)>> \o Ascending(S \ {SetMin(S)})

\* the answers of the issue source: lists of distinct open issues
Responses ==
    {[k \in 1..Cardinality(S) |-> Issue(Ascending(S)[k])] :
        S \in SUBSET (1..MaxFetched)}

\* Capped without the slice of line 220
Capped_Uncapped(response) == response

\* response.json()[:3], line 220
Capped(response) ==
    SubSeq(response, 1, IF Len(response) < IssueCap THEN Len(response) ELSE IssueCap)

(***************************************************************************)
(* State                                                                   *)
(***************************************************************************)
VARIABLES
    GROK_KEY,     \* os.getenv('GROK_KEY'): "absent", "empty" or "set"
    GH_TOKEN,     \* os.getenv('GH_TOKEN'): "absent", "empty" or "set"
    API_CONFIGS,  \* the provider list, a sequence of provider names
    pc,           \* the position of the program
    exitStatus,   \* the exit status of the process, -1 while it runs
    exitCause,    \* what ended the process
    issues,       \* line 220
    cur,          \* the index in issues of the issue of the loop of line 223
    api,          \* the index in API_CONFIGS of the loop of line 90
    tried,        \* the requests of ai_fix_code for the current issue, in
                  \* order: the provider's index, what came of the request
                  \* and, if a patch was accepted, that patch
    slept,        \* time slept in ai_fix_code for the current issue
    fix,          \* line 225
    pr_link,      \* line 230
    calls,        \* the steps of submit_fix run for the current issue,
                  \* each with whether it succeeded
    dirs,         \* the ids whose directory ./temp_repo_<id> exists
    net,          \* the kinds of network request sent in this run
    result,       \* per issue: "none", "skipped", "failed" or "pr"
    started,      \* the ids of the issues the loop of line 223 has taken up,
                  \* in order
    handed,       \* per issue: the number of calls of submit_fix (line 230)
    sent,         \* the number of completion requests (line 93) of the run
    raw_content,  \* line 107, in the specification of the clean-up alone
    candidate,    \* the text the clean-up and the validation are applied to
    first_pass,   \* the outcome of the first clean-up of raw_content
    passes,       \* how many times the clean-up was applied
    verdict       \* the validation of candidate: "none" (not run),
                  \* "accepted" (returned at line 139) or "rejected"

vars ==
    <<GROK_KEY, GH_TOKEN, API_CONFIGS, pc, exitStatus, exitCause, issues, cur,
      api, tried, slept, fix, pr_link, calls, dirs, net, result, started,
      handed, sent, raw_content, candidate, first_pass, passes, verdict>>

env == <<GROK_KEY, GH_TOKEN, API_CONFIGS>>
aiVars == <<api, tried, slept, fix>>
submitVars == <<pr_link, calls, dirs>>
runLog == <<started, handed, sent>>
normVars == <<raw_content, candidate, first_pass, passes, verdict>>

ProviderLists ==
    {[k \in 1..n |-> IF k = 1 THEN "grok" ELSE "fallback"] : n \in 1..MaxProviders}

Init ==
    /\ GROK_KEY \in {"absent", "empty", "set"}
    /\ GH_TOKEN \in {"absent", "empty", "set"}
    /\ API_CONFIGS \in ProviderLists
    /\ pc = "load"
    /\ exitStatus = -1
    /\ exitCause = "none"
    /\ issues = <<>>
    /\ cur = 0
    /\ api = 0
    /\ tried = <<>>
    /\ slept = 0
    /\ fix = None
    /\ pr_link = None
    /\ calls = <<>>
    /\ dirs \in {{}, 1..MaxFetched}
    /\ net = {}
    /\ result = <<>>
    /\ started = <<>>
    /\ handed = <<>>
    /\ sent = 0
    /\ raw_content = <<>>
    /\ candidate = <<>>
    /\ first_pass = <<>>
    /\ passes = 0
    /\ verdict = "none"

\* the process ends: exit(status), an uncaught exception (status 1), or the
\* end of the script (status 0)
Exit(status, cause) ==
    /\ pc' = "exited"
    /\ exitStatus' = status
    /\ exitCause' = cause

(***************************************************************************)
(* Start-up, lines 11-33                                                   *)
(***************************************************************************)
\* CredentialError without the test of lines 31-33
CredentialError_TokenUnchecked(grok, gh) ==
    IF grok = "absent" THEN "AttributeError"
    ELSE IF grok = "empty" THEN "ValueError"
    ELSE "none"

\* the exception the module-level code raises, "none" if it raises none:
\* line 16 calls .strip() on os.getenv('GROK_KEY'), lines 29-33 test both
CredentialError(grok, gh) ==
    IF grok = "absent" THEN "AttributeError"
    ELSE IF grok = "empty" THEN "ValueError"
    ELSE IF gh \in {"absent", "empty"} THEN "ValueError"
    ELSE "none"

LoadModule ==
    /\ pc = "load"
    /\ IF CredentialError(GROK_KEY, GH_TOKEN) # "none"
       THEN Exit(1, "credential")
       ELSE /\ pc' = "probe"
            /\ UNCHANGED <<exitStatus, exitCause>>
    /\ UNCHANGED <<env, normVars, runLog, issues, cur, aiVars, submitVars, net, result>>

(***************************************************************************)
(* test_grok_api, lines 36-57, and its use at lines 205-207                *)
(***************************************************************************)
\* the outcomes of a completion request: a requests exception before a
\* response, a non-2xx status (raise_for_status), a 2xx response whose JSON
\* lacks choices[0].message.content, or a 2xx response that has it
ResponseKinds == {"timeout", "http_error", "malformed", "text"}

\* IsRequestException for a handler that names requests.Timeout alone
IsRequestException_TimeoutOnly(kind) == kind = "timeout"

\* except RequestException (lines 55 and 141): Timeout and HTTPError are
\* RequestExceptions, the KeyError of a missing field is not
IsRequestException(kind) == kind \in {"timeout", "http_error"}

\* what test_grok_api does with a response: "raise", or the value returned
ProbeOutcome(kind, reply) ==
    IF kind = "text"
    THEN IF Contains(Strip(reply), PROBE_EXPECTED) THEN "True" ELSE "False"
    ELSE IF IsRequestException(kind) THEN "False"
    ELSE "raise"

TestGrokApi ==
    /\ pc = "probe"
    /\ \E kind \in ResponseKinds, reply \in {PROBE_REPLY_OK, PROBE_REPLY_OTHER} :
          LET r == ProbeOutcome(kind, reply)
          IN  IF r = "raise" THEN Exit(1, "uncaught")
              ELSE IF r = "False" THEN Exit(1, "probe")
              ELSE /\ pc' = "fetch"
                   /\ UNCHANGED <<exitStatus, exitCause>>
    /\ net' = net \cup {"probe"}
    /\ UNCHANGED <<env, normVars, runLog, issues, cur, aiVars, submitVars, result>>

(***************************************************************************)
(* Issue discovery, lines 209-221 and 236-238                              *)
(***************************************************************************)
FetchIssues ==
    /\ pc = "fetch"
    /\ net' = net \cup {"fetch"}
    /\ \/ \* a RequestException (line 236) or a status other than 200 (line 217)
          /\ Exit(1, "discovery")
          /\ UNCHANGED <<issues, result, handed>>
       \/ \E response \in Responses :
             /\ issues' = Capped(response)
             /\ result' = [k \in 1..Len(Capped(response)) |-> "none"]
             /\ handed' = [k \in 1..Len(Capped(response)) |-> 0]
             /\ pc' = "loop"
             /\ UNCHANGED <<exitStatus, exitCause>>
    /\ UNCHANGED <<env, normVars, started, sent, cur, aiVars, submitVars>>

(***************************************************************************)
(* The loop over the issues, lines 223-234, and the end of the script      *)
(***************************************************************************)
\* UsesFallbackPatch for a program without the shortcut of lines 62-68
UsesFallbackPatch_Never(issue) == FALSE

\* line 62
UsesFallbackPatch(issue) == Contains(issue.title, SHIM_TITLE)

\* the loop has no issue left: the script ends
Finish ==
    /\ pc = "loop"
    /\ cur = Len(issues)
    /\ Exit(0, "end")
    /\ UNCHANGED <<env, normVars, runLog, issues, cur, aiVars, submitVars, net, result>>

\* lines 223-225 and 60-90: the next issue enters ai_fix_code, which
\* returns the literal patch at once or starts the loop over the providers
ProcessIssue ==
    /\ pc = "loop"
    /\ cur < Len(issues)
    /\ cur' = cur + 1
    /\ started' = Append(started, issues[cur + 1].id)
    /\ tried' = <<>>
    /\ slept' = 0
    /\ calls' = <<>>
    /\ pr_link' = None
    /\ IF UsesFallbackPatch(issues[cur + 1])
       THEN /\ fix' = Some(FALLBACK_PATCH)
            /\ api' = 0
            /\ pc' = "gate"
       ELSE /\ fix' = None
            /\ api' = 1
            /\ pc' = "request"
    /\ UNCHANGED <<env, normVars, handed, sent, exitStatus, exitCause,
                   issues, dirs, net, result>>

(***************************************************************************)
(* ai_fix_code, lines 90-146                                               *)
(***************************************************************************)
\* lines 107-138 for a reply: the cleaned content, and whether it passes the
\* validation
Judge(raw) ==
    LET content == Clean(raw)
    IN  [content |-> content, valid |-> Valid(content)]

RECURSIVE JudgeAll(_)
JudgeAll(raws) ==
    IF raws = <<>> THEN <<>> ELSE <<Judge(Head(raws))>> \o JudgeAll(Tail(raws))

\* Judge of every reply of RawTexts, computed once
Judged == JudgeAll(RawTexts)

\* NextProvider for a loop that ends after its first pass
NextProvider_GivesUp(a) ==
    /\ api' = 0
    /\ pc' = "gate"

\* NextProvider for a loop that asks the same provider again
NextProvider_Retries(a) ==
    /\ api' = a
    /\ pc' = "request"

\* lines 90 and 145-146: the loop goes on to the provider after a, or ends
\* and ai_fix_code returns None
NextProvider(a) ==
    IF a < Len(API_CONFIGS)
    THEN /\ api' = a + 1
         /\ pc' = "request"
    ELSE /\ api' = 0
         /\ pc' = "gate"

\* an entry of tried
Attempt(a, outcome, content) == [api |-> a, outcome |-> outcome, content |-> content]

\* one pass of the loop of line 90: the request to API_CONFIGS[api] and what
\* follows from its response
Request ==
    /\ pc = "request"
    /\ net' = net \cup {"completion"}
    /\ sent' = sent + 1
    /\ \E kind \in ResponseKinds, raw \in 1..Len(RawTexts) :
          IF kind = "text"
          THEN IF Judged[raw].valid
               THEN \* line 139
                    /\ tried' = Append(tried, Attempt(api, "valid", Judged[raw].content))
                    /\ fix' = Some(Judged[raw].content)
                    /\ api' = 0
                    /\ pc' = "gate"
                    /\ UNCHANGED <<slept, exitStatus, exitCause>>
               ELSE \* line 140
                    /\ tried' = Append(tried, Attempt(api, "invalid", <<>>))
                    /\ fix' = None
                    /\ NextProvider(api)
                    /\ UNCHANGED <<slept, exitStatus, exitCause>>
          ELSE IF IsRequestException(kind)
          THEN \* lines 141-143
               /\ tried' = Append(tried, Attempt(api, kind, <<>>))
               /\ slept' = slept + Backoff
               /\ fix' = None
               /\ NextProvider(api)
               /\ UNCHANGED <<exitStatus, exitCause>>
          ELSE \* the exception (the KeyError of line 107) is caught nowhere
               /\ tried' = Append(tried, Attempt(api, kind, <<>>))
               /\ Exit(1, "uncaught")
               /\ UNCHANGED <<api, slept, fix>>
    /\ UNCHANGED <<env, normVars, started, handed, issues, cur,
                   submitVars, result>>

(***************************************************************************)
(* The test of line 226                                                    *)
(***************************************************************************)
\* the truth value of fix: None and the empty text are false
Truthy(v) == v # None /\ v[1] # <<>>

\* lines 226-228: no fix, the issue is skipped
Skip ==
    /\ pc = "gate"
    /\ ~Truthy(fix)
    /\ result' = [result EXCEPT ![cur] = "skipped"]
    /\ pc' = "loop"
    /\ UNCHANGED <<env, normVars, runLog, exitStatus, exitCause, issues, cur, aiVars, submitVars, net>>

\* line 230: the fix is handed to submit_fix
Submit ==
    /\ pc = "gate"
    /\ Truthy(fix)
    /\ handed' = [handed EXCEPT ![cur] = @ + 1]
    /\ pc' = "clone"
    /\ UNCHANGED <<env, normVars, started, sent, exitStatus, exitCause,
                   issues, cur, aiVars, submitVars, net, result>>

(***************************************************************************)
(* submit_fix, lines 149-199                                               *)
(***************************************************************************)
\* line 151, by the id of the issue
local_dir == issues[cur].id

\* lines 155-156: a directory left by an earlier run is removed
Removed(d, id) == d \ {id}

\* Finally without the removal of line 199
Finally_Skipped(d, id) == d

\* lines 197-199, the finally: the directory is removed if it exists
Finally(d, id) == d \ {id}

\* a step of submit_fix that succeeded: on to the next one
Proceed(op, next) ==
    /\ calls' = Append(calls, <<op, TRUE>>)
    /\ pc' = next
    /\ UNCHANGED pr_link

\* Fail for a handler that hands back the link all the same
Fail_ReturnsLink(op) ==
    /\ calls' = Append(calls, <<op, FALSE>>)
    /\ pr_link' = Some(<<"html_url", issues[cur].number>>)
    /\ dirs' = Finally(dirs, local_dir)
    /\ pc' = "report"

\* a step raised: the handler of line 194 (or of line 168) returns None
\* through the finally of line 197
Fail(op) ==
    /\ calls' = Append(calls, <<op, FALSE>>)
    /\ pr_link' = None
    /\ dirs' = Finally(dirs, local_dir)
    /\ pc' = "report"

\* lines 155-159
Clone ==
    /\ pc = "clone"
    /\ net' = net \cup {"clone"}
    /\ \/ /\ Proceed("clone", "checkout")
          /\ dirs' = Removed(dirs, local_dir) \cup {local_dir}
       \/ Fail("clone")
    /\ UNCHANGED <<env, normVars, runLog, exitStatus, exitCause, issues, cur, aiVars, result>>

\* a step that works in the clone alone
LocalStep(op, here, next) ==
    /\ pc = here
    /\ \/ /\ Proceed(op, next)
          /\ UNCHANGED dirs
       \/ Fail(op)
    /\ UNCHANGED <<env, normVars, runLog, exitStatus, exitCause, issues, cur, aiVars, net, result>>

\* line 160
Checkout == LocalStep("checkout", "checkout", "write")

\* lines 162-163
WritePatch == LocalStep("write", "write", "apply_check")

\* ApplyCheck with the handler of line 168 not returning: a rejected check
\* is reported and the real apply follows all the same
ApplyCheck_Unchecked ==
    /\ pc = "apply_check"
    /\ \E ok \in BOOLEAN : calls' = Append(calls, <<"apply_check", ok>>)
    /\ pc' = "apply"
    /\ UNCHANGED <<env, normVars, runLog, exitStatus, exitCause, issues, cur, aiVars, pr_link, dirs,
                   net, result>>

\* lines 166-170: git apply --check
ApplyCheck == LocalStep("apply_check", "apply_check", "apply")

\* line 172: git apply
Apply == LocalStep("apply", "apply", "add")

\* line 173
AddAll == LocalStep("add", "add", "commit")

\* line 174
Commit == LocalStep("commit", "commit", "push")

\* line 176
Push ==
    /\ pc = "push"
    /\ net' = net \cup {"push"}
    /\ \/ /\ Proceed("push", "create_pr")
          /\ UNCHANGED dirs
       \/ Fail("push")
    /\ UNCHANGED <<env, normVars, runLog, exitStatus, exitCause, issues, cur, aiVars, result>>

\* lines 186-192: the request fails, or its status is an error, or its
\* JSON lacks html_url (all caught at line 194); or the URL is returned
\* through the finally of line 197
CreatePR ==
    /\ pc = "create_pr"
    /\ net' = net \cup {"pr"}
    /\ \/ /\ calls' = Append(calls, <<"create_pr", TRUE>>)
          /\ pr_link' = Some(<<"html_url", issues[cur].number>>)
          /\ dirs' = Finally(dirs, local_dir)
          /\ pc' = "report"
       \/ Fail("create_pr")
    /\ UNCHANGED <<env, normVars, runLog, exitStatus, exitCause, issues, cur, aiVars, result>>

\* lines 231-234
Report ==
    /\ pc = "report"
    /\ result' = [result EXCEPT ![cur] = IF Truthy(pr_link) THEN "pr" ELSE "failed"]
    /\ pc' = "loop"
    /\ UNCHANGED <<env, normVars, runLog, exitStatus, exitCause, issues, cur, aiVars, submitVars, net>>

(***************************************************************************)
(* The program                                                             *)
(***************************************************************************)
Next ==
    \/ LoadModule
    \/ TestGrokApi
    \/ FetchIssues
    \/ Finish
    \/ ProcessIssue
    \/ Request
    \/ Skip
    \/ Submit
    \/ Clone
    \/ Checkout
    \/ WritePatch
    \/ ApplyCheck
    \/ Apply
    \/ AddAll
    \/ Commit
    \/ Push
    \/ CreatePR
    \/ Report

Spec == Init /\ [][Next]_vars

(***************************************************************************)
(* The clean-up and the validation on their own, lines 107-140: a reply is  *)
(* drawn from a family of replies, the clean-up is applied to it (and to   *)
(* its own outcome), the validation to what is there                       *)
(***************************************************************************)
\* a reply that opens with a fence line
LINE_FENCE_DIFF ==
    <<BQ, BQ, BQ, "d", "i", "f", "f">>

\* a reply that opens with git's own first line
LINE_DIFF_GIT ==
    <<"d", "i", "f", "f", " ", "-", "-", "g", "i", "t", " ", "a", "/", "R",
      "E", "A", "D", "M", "E", ".", "m", "d", " ", "b", "/", "R", "E", "A",
      "D", "M", "E", ".", "m", "d">>

\* the header lines of a diff of another file
OTHER_MINUS_HEADER ==
    <<"-", "-", "-", " ", "a", "/", "d", "o", "c", "s", "/", "g", "u", "i",
      "d", "e", ".", "m", "d">>

OTHER_PLUS_HEADER ==
    <<"+", "+", "+", " ", "b", "/", "d", "o", "c", "s", "/", "g", "u", "i",
      "d", "e", ".", "m", "d">>

\* the hunk header of the prompt's example
HUNK_LINE ==
    <<"@", "@", " ", "-", "1", ",", "1", " ", "+", "1", ",", "1", " ", "@",
      "@">>

\* the added line with the closing fence on the same line
NEW_LINE_FENCED ==
    <<"+", "H", "e", "l", "l", "o", " ", "W", "o", "r", "l", "d", BQ, BQ, BQ>>

\* lines a provider appends after the patch
LINE_NOTE ==
    <<"N", "o", "t", "e", ":", " ", "t", "h", "i", "s", " ", "f", "i", "x",
      "e", "s", " ", "t", "h", "e", " ", "t", "y", "p", "o">>

LINE_SEE ==
    <<"S", "e", "e", " ", "t", "h", "e", " ", "R", "E", "A", "D", "M", "E">>

LINE_CONTEXT ==
    <<" ", "c", "o", "n", "t", "e", "x", "t">>

LINE_SECOND_FILE ==
    <<"-", "-", "-", " ", "a", "/", "b", ".", "m", "d">>
\* the most lines appended to a reply of the family
MaxTrailing == 1
\* the most times the clean-up is applied to a reply
MaxPasses == 2

\* what a reply of the family opens with, before its header lines
Openings == {<<>>, <<LINE_FENCE_DIFF>>, <<LINE_DIFF_GIT>>}

\* its two header lines
HeaderPairs ==
    {<<MINUS_HEADER, PLUS_HEADER>>, <<OTHER_MINUS_HEADER, OTHER_PLUS_HEADER>>}

\* its removed and added lines
Bodies ==
    {<<OLD_LINE, NEW_LINE>>, <<NEW_LINE, OLD_LINE>>, <<OLD_LINE, NEW_LINE_FENCED>>}

\* the lines appended to it
TrailingLines ==
    {FENCE, LINE_NOTE, LINE_SEE, ELLIPSIS, LINE_CONTEXT, LINE_SECOND_FILE}

Trailings == UNION {[1..n -> TrailingLines] : n \in 0..MaxTrailing}

\* the replies (response...['content'] of line 107) the clean-up is run on
RawReplies ==
    {join(o \o h \o <<HUNK_LINE>> \o b \o t) :
        o \in Openings, h \in HeaderPairs, b \in Bodies, t \in Trailings}
    \cup {RawTexts[k] : k \in 1..Len(RawTexts)}

\* the variables of the program, which the clean-up on its own leaves alone
progVars ==
    <<env, pc, exitStatus, exitCause, issues, cur, aiVars, submitVars, net,
      result, runLog>>

\* a reply has arrived for the first provider of the first issue
CleanUpInit ==
    /\ GROK_KEY = "set"
    /\ GH_TOKEN = "set"
    /\ API_CONFIGS = <<"grok">>
    /\ pc = "request"
    /\ exitStatus = -1
    /\ exitCause = "none"
    /\ issues = <<Issue(1)>>
    /\ cur = 1
    /\ api = 1
    /\ tried = <<>>
    /\ slept = 0
    /\ fix = None
    /\ pr_link = None
    /\ calls = <<>>
    /\ dirs = {}
    /\ net = {"probe", "fetch"}
    /\ result = <<"none">>
    /\ started = <<1>>
    /\ handed = <<0>>
    /\ sent = 0
    /\ raw_content \in RawReplies
    /\ candidate = raw_content
    /\ first_pass = <<>>
    /\ passes = 0
    /\ verdict = "none"

\* lines 107-125 applied to the text at hand
Normalize ==
    /\ passes < MaxPasses
    /\ candidate' = Clean(candidate)
    /\ first_pass' = IF passes = 0 THEN Clean(candidate) ELSE first_pass
    /\ passes' = passes + 1
    /\ verdict' = "none"
    /\ UNCHANGED <<progVars, raw_content>>

\* lines 131-140 applied to the text at hand: it is returned (line 139), or
\* the provider is given up (line 140)
Validate ==
    /\ verdict = "none"
    /\ verdict' = IF Valid(candidate) THEN "accepted" ELSE "rejected"
    /\ UNCHANGED <<progVars, raw_content, candidate, first_pass, passes>>

CleanUpNext ==
    \/ Normalize
    \/ Validate

CleanUpSpec == CleanUpInit /\ [][CleanUpNext]_vars

(***************************************************************************)
(* Properties                                                              *)
(***************************************************************************)
\* the positions inside submit_fix
InSubmit ==
    {"clone", "checkout", "write", "apply_check", "apply", "add", "commit",
     "push", "create_pr"}

\* the steps of submit_fix that come after the dry-run check
AfterCheck == {"apply", "add", "commit", "push", "create_pr"}

\* submit_fix has returned for the current issue
Returned == calls # <<>> /\ pc \notin InSubmit

\* the last step submit_fix ran for the current issue
LastCall == calls[Len(calls)]

\* the dry-run check of the current issue failed
CheckFailed == \E k \in 1..Len(calls) : calls[k] = <<"apply_check", FALSE>>

\* C1: if git apply --check fails, no later step of submit_fix (the real
\* apply, stage, commit, push, pull request) is ever run for that issue,
\* submit_fix returns None, and the issue's directory does not exist once
\* it has returned.
C1_CheckFailureEndsSubmission ==
    CheckFailed =>
        /\ LastCall = <<"apply_check", FALSE>>
        /\ \A k \in 1..Len(calls) : calls[k][1] \notin AfterCheck
        /\ pc \notin InSubmit
        /\ pr_link = None
        /\ issues[cur].id \notin dirs

C1_Witness ==
    /\ pc = "report"
    /\ CheckFailed
    /\ Len(calls) = 4

\* C2: whenever submit_fix has returned, by whichever path, the directory
\* temp_repo_<id> of its issue does not exist.
C2_DirectoryGoneOnReturn ==
    Returned => issues[cur].id \notin dirs

\* submit_fix returned after a failed push, for an issue whose directory
\* existed before the run
C2_Witness ==
    /\ pc = "report"
    /\ LastCall = <<"push", FALSE>>
    /\ dirs # {}
    /\ issues[cur].id \notin dirs

\* every request made for the current issue ended in a transport failure
AllTransportFailures ==
    /\ tried # <<>>
    /\ \A k \in 1..Len(tried) : tried[k].outcome \in {"timeout", "http_error"}

Fingerprint(issue) ==
    <<issue.title,
      SubSeq(issue.body, 1, IF Len(issue.body) < 50 THEN Len(issue.body) ELSE 50)>>

\* C4: an issue with the title and first 50 body characters of an issue
\* processed before it is served without any completion request. It is
\* stated for the case most favourable to the claim: the earlier issue got
\* an accepted patch, so a cache would hold one.
C4_SecondOccurrenceNotRequested ==
    \A k \in 1..(cur - 1) :
        /\ Fingerprint(issues[k]) = Fingerprint(issues[cur])
        /\ result[k] \in {"pr", "failed"}
        => tried = <<>>

\* a text of digits only, and at least one
AllDigits(s) == s # <<>> /\ \A k \in 1..Len(s) : IsDigit(s[k])

\* line begins with a hunk header '@@ -n,n +n,n @@'
BeginsWithHunkHeader(line) ==
    /\ MatchAt(line, 1, HUNK_OPEN)
    /\ \E a \in 6..Len(line) :
          /\ line[a] = ","
          /\ AllDigits(SubSeq(line, 5, a - 1))
          /\ \E b \in (a + 2)..Len(line) :
                /\ MatchAt(line, b, HUNK_MID)
                /\ AllDigits(SubSeq(line, a + 1, b - 1))
                /\ \E c \in (b + 3)..Len(line) :
                      /\ line[c] = ","
                      /\ AllDigits(SubSeq(line, b + 2, c - 1))
                      /\ \E d \in (c + 2)..Len(line) :
                            /\ MatchAt(line, d, HUNK_CLOSE)
                            /\ AllDigits(SubSeq(line, c + 1, d - 1))

\* the rules of the validator, as the claim lists them
MeetsRules(patch) ==
    LET ls == splitlines(patch)
    IN  /\ Len(ls) = 5
        /\ ls[1] = MINUS_HEADER
        /\ ls[2] = PLUS_HEADER
        /\ BeginsWithHunkHeader(ls[3])
        /\ MatchAt(ls[4], 1, OLD_LINE)
        /\ MatchAt(ls[5], 1, NEW_LINE)
        /\ \A d \in Disqualifying : Find(patch, d, 1) = 0

\* the texts the model's providers can lead ai_fix_code to return, and
\* those of them that meet the rules, computed once
Candidates == <<FALLBACK_PATCH>> \o RawTexts \o [k \in 1..Len(Judged) |-> Judged[k].content]
RuleMeeting == SelectSeq(Candidates, MeetsRules)

\* MeetsRules(patch), looked up for the texts of Candidates
Lawful(patch) ==
    IF \E k \in 1..Len(Candidates) : Candidates[k] = patch
    THEN \E k \in 1..Len(RuleMeeting) : RuleMeeting[k] = patch
    ELSE MeetsRules(patch)

\* C5: a patch that is in submit_fix, or went through it, meets every rule
\* of the validator; and an issue without a fix never enters submit_fix,
\* so that none of its steps (the clone that makes the directory) is run.
C5_OnlyValidPatchesSubmitted ==
    /\ (pc \in InSubmit \/ calls # <<>>) => (fix # None /\ Lawful(fix[1]))
    /\ fix = None => (pc \notin InSubmit /\ calls = <<>>)
    /\ (pc = "loop" /\ cur > 0 /\ result[cur] = "skipped") => calls = <<>>

\* a patch other than the literal one is in submit_fix
C5_Witness ==
    /\ pc = "apply"
    /\ fix # None
    /\ fix[1] # FALLBACK_PATCH
    /\ Lawful(fix[1])

\* C6: the providers are asked in the order of API_CONFIGS, each at most
\* once; an accepted patch ends the loop, so it is the last request, and it
\* is the patch returned; and ai_fix_code returns None from the loop only
\* after every provider was asked.
C6_ProvidersInOrderFirstValidWins ==
    /\ Len(tried) <= Len(API_CONFIGS)
    /\ \A k \in 1..Len(tried) : tried[k].api = k
    /\ \A k \in 1..(Len(tried) - 1) : tried[k].outcome # "valid"
    /\ pc = "request" => api = Len(tried) + 1
    /\ (tried # <<>> /\ tried[Len(tried)].outcome = "valid")
          => (pc # "request" /\ fix = Some(tried[Len(tried)].content))
    /\ (pc = "gate" /\ fix = None) => Len(tried) = Len(API_CONFIGS)

\* the second provider's patch was returned after the first one failed
C6_Witness ==
    /\ pc = "gate"
    /\ Len(tried) = 2
    /\ tried[1].outcome = "invalid"
    /\ tried[2].outcome = "valid"
    /\ fix = Some(tried[2].content)

\* the failed attempts of the current issue: a timeout, a non-2xx status,
\* or a 2xx response whose body lacks the generated text
FailedAttempts ==
    {k \in 1..Len(tried) : tried[k].outcome \in {"timeout", "http_error", "malformed"}}

\* C7: every failed attempt is recovered inside ai_fix_code: the backoff
\* follows it, the loop goes on to the next provider or ends with None,
\* and no exception leaves ai_fix_code.
C7_FailedAttemptRecovered ==
    FailedAttempts # {} =>
        /\ exitCause # "uncaught"
        /\ slept = Backoff * Cardinality(FailedAttempts)

\* C8: once the issues are pulled, a failure on one issue never stops the
\* run: when the process has ended, every pulled issue was processed and
\* the exit status is zero.
C8_RunSurvivesIssueFailures ==
    (pc = "exited" /\ issues # <<>>) =>
        /\ exitStatus = 0
        /\ \A k \in 1..Len(issues) : result[k] # "none"

\* C9: with GROK_KEY or GH_TOKEN absent the process ends with a fatal error
\* at start-up, and no network request is ever sent.
C9_MissingCredentialNoNetwork ==
    (GROK_KEY = "absent" \/ GH_TOKEN = "absent") =>
        /\ net = {}
        /\ pc \in {"load", "exited"}
        /\ pc = "exited" => (exitStatus = 1 /\ exitCause = "credential")

C9_Witness ==
    /\ GROK_KEY = "set"
    /\ GH_TOKEN = "absent"
    /\ pc = "exited"
    /\ exitStatus = 1

\* C10: the exit status is non-zero only when issue discovery failed or a
\* required credential was absent at start-up.
C10_NonZeroExitOnlyDiscoveryOrCredential ==
    (pc = "exited" /\ exitStatus # 0) => exitCause \in {"discovery", "credential"}

\* the smaller of two numbers
Min(a, b) == IF a < b THEN a ELSE b

\* C11: a run takes up at most 3 issues, the first ones of the answer of
\* issue discovery, in its order; an issue is taken up only once every
\* issue before it has been finished (skipped, or through submit_fix), no
\* issue after the current one has been touched, and no issue is handed to
\* submit_fix more than once.
C11_Sequential ==
    /\ Len(issues) <= IssueCap
    /\ cur <= Len(issues)
    /\ started = [k \in 1..cur |-> issues[k].id]
    /\ \A k \in 1..(cur - 1) : result[k] # "none"
    /\ \A k \in (cur + 1)..Len(issues) : result[k] = "none" /\ handed[k] = 0
    /\ (pc = "loop" /\ cur > 0) => result[cur] # "none"
    /\ (pc \in InSubmit \/ pc = "report") => (cur > 0 /\ handed[cur] = 1)
    /\ \A k \in 1..Len(issues) :
          /\ handed[k] <= 1
          /\ result[k] \in {"pr", "failed"} => handed[k] = 1
          /\ result[k] = "skipped" => handed[k] = 0

\* the issues of the run are the first ones, three at most, of an answer of
\* issue discovery, in its order
C11_FirstOfAnswer ==
    (pc = "fetch" /\ pc' = "loop") =>
        \E response \in Responses :
            /\ Len(issues') = Min(Len(response), IssueCap)
            /\ issues' = SubSeq(response, 1, Len(issues'))

C11_AtMostThreeInOrderOneAtATime ==
    /\ []C11_Sequential
    /\ [][C11_FirstOfAnswer]_vars

\* a run took up three issues and ended, the first skipped and the two
\* after it handed to submit_fix
C11_Witness ==
    /\ pc = "exited"
    /\ exitStatus = 0
    /\ started = <<1, 2, 4>>
    /\ handed = <<0, 1, 1>>

\* the lines of a text that begin a file's diff: '--- a/' at their start
MinusHeaders(text) ==
    LET ls == splitlines(text)
    IN  {k \in 1..Len(ls) : MatchAt(ls[k], 1, MINUS_A)}

\* the text holds a fence, four plus signs in a row, or more than one
\* '--- a/' header line
Marked(text) ==
    \/ Find(text, FENCE, 1) # 0
    \/ Find(text, PLUS4, 1) # 0
    \/ Cardinality(MinusHeaders(text)) > 1

\* C12: a candidate that holds a fence, four plus signs in a row or more
\* than one '--- a/' header line is rejected by the validation, whatever
\* the rest of it, and so is never returned (line 139). A header is taken
\* as a line that begins with '--- a/'.
C12_MarkedCandidateRejected ==
    (verdict # "none" /\ Marked(candidate)) => verdict = "rejected"

\* the validation has rejected the five lines of the example, well-formed
\* but for the fence that ends the last of them
C12_Witness ==
    /\ passes = 0
    /\ candidate = join(<<MINUS_HEADER, PLUS_HEADER, HUNK_LINE, OLD_LINE, NEW_LINE_FENCED>>)
    /\ verdict = "rejected"

\* the five-line document of the claim
ExactDocument == join(<<MINUS_HEADER, PLUS_HEADER, HUNK_LINE, OLD_LINE, NEW_LINE>>)

\* C13: the validation accepts the five-line document of the example, and
\* whatever it accepts has exactly five lines, the fourth beginning with
\* the old text '-Helllo World' and the fifth with the new text
\* '+Hello World': a document of another length, or with the two lines
\* swapped or beginning otherwise, is rejected.
C13_StrictValidation ==
    verdict # "none" =>
        /\ candidate = ExactDocument => verdict = "accepted"
        /\ verdict = "accepted" =>
              LET ls == splitlines(candidate)
              IN  /\ Len(ls) = 5
                  /\ MatchAt(ls[4], 1, OLD_LINE)
                  /\ MatchAt(ls[5], 1, NEW_LINE)

\* the validation has rejected the document with its last two lines swapped
C13_Witness ==
    /\ candidate = join(<<MINUS_HEADER, PLUS_HEADER, HUNK_LINE, NEW_LINE, OLD_LINE>>)
    /\ verdict = "rejected"

\* C14: the clean-up is idempotent: applied to its own outcome it gives
\* that outcome again, clean(clean(x)) = clean(x) for every reply x.
C14_CleanUpIdempotent ==
    passes >= 2 => candidate = first_pass

\* the steps of submit_fix, in the order of lines 155-192
StepOrder ==
    <<"clone", "checkout", "write", "apply_check", "apply", "add", "commit",
      "push", "create_pr">>

\* the place of a step in StepOrder
StepIndex(op) == CHOOSE k \in 1..Len(StepOrder) : StepOrder[k] = op

\* C15: the steps of submit_fix run in the fixed order clone, checkout,
\* write, dry-run check, apply, stage, commit, push, pull request, each only
\* after every step before it succeeded; submit_fix returns a link only
\* when the pull request, the last step, succeeded, and None otherwise.
C15_StepsInOrderLinkOnlyAfterAll ==
    /\ Len(calls) <= Len(StepOrder)
    /\ \A k \in 1..Len(calls) : calls[k][1] = StepOrder[k]
    /\ \A k \in 1..(Len(calls) - 1) : calls[k][2]
    /\ pc \in InSubmit => (Len(calls) = StepIndex(pc) - 1 /\ pr_link = None)
    /\ pr_link # None => (Len(calls) = Len(StepOrder) /\ LastCall[2])
    /\ (Returned /\ ~LastCall[2]) => pr_link = None
    /\ (Returned /\ LastCall[2]) => (Len(calls) = Len(StepOrder) /\ pr_link # None)

\* submit_fix returned None after the push, its eighth step, failed
C15_Witness ==
    /\ pc = "report"
    /\ Len(calls) = 8
    /\ LastCall = <<"push", FALSE>>
    /\ pr_link = None

\* the path a header line names, after the six characters of its prefix
PathOf(line) == SubSeq(line, Len(MINUS_A) + 1, Len(line))

\* the first two lines of the reply are the header lines '--- a/<p>' and
\* '+++ b/<p>' of a path p other than README.md
NamesOtherPath(reply) ==
    LET ls == splitlines(reply)
    IN  /\ Len(ls) >= 2
        /\ MatchAt(ls[1], 1, MINUS_A)
        /\ MatchAt(ls[2], 1, PLUS_B)
        /\ PathOf(ls[1]) = PathOf(ls[2])
        /\ PathOf(ls[1]) # PathOf(MINUS_HEADER)

\* how many lines of the text are the given line
Occurrences(text, line) ==
    LET ls == splitlines(text)
    IN  Cardinality({k \in 1..Len(ls) : ls[k] = line})

\* C16: the clean-up of a reply whose two header lines name a path other
\* than README.md has exactly one line '--- a/README.md' and exactly one
\* line '+++ b/README.md': both headers are rewritten.
C16_BothHeadersRewritten ==
    (passes = 1 /\ NamesOtherPath(raw_content)) =>
        /\ Occurrences(candidate, MINUS_HEADER) = 1
        /\ Occurrences(candidate, PLUS_HEADER) = 1

\* the line is prose of the kind line 121 is written for: it holds Note,
\* This, See or Here
Prose(line) ==
    \E w \in {W_NOTE, W_THIS, W_SEE, W_HERE} : Find(line, w, 1) # 0

\* the first five lines of the reply
FirstFive(reply) == join(SubSeq(splitlines(reply), 1, 5))

\* the reply is a patch the validation accepts followed by prose: appended
\* lines that hold Note, This, See or Here, or a last line '...'
PatchThenProse(reply) ==
    LET ls == splitlines(reply)
    IN  /\ Len(ls) > 5
        /\ MeetsRules(FirstFive(reply))
        /\ \A k \in 6..Len(ls) :
              Prose(ls[k]) \/ (k = Len(ls) /\ ls[k] = ELLIPSIS)

\* C17: the clean-up of a reply made of a valid five-line patch followed by
\* prose is that patch, unchanged, and the validation accepts it.
C17_OnlyTrailingProseRemoved ==
    (passes = 1 /\ PatchThenProse(raw_content)) =>
        /\ candidate = FirstFive(raw_content)
        /\ verdict # "rejected"

\* the title of the current issue holds 'Fix typo in README'
TypoTitle == cur > 0 /\ Find(issues[cur].title, SHIM_TITLE, 1) # 0

\* ai_fix_code has returned for the current issue
Generated == cur > 0 /\ pc \notin {"request", "exited"}

\* C18: for an issue whose title holds 'Fix typo in README' no completion
\* request is sent and ai_fix_code returns the literal five-line patch of
\* lines 64-68 as it is; for any other issue a patch is returned only after
\* a request, and it is the content the last request's validation accepted.
C18_TypoTitleServedWithoutRequest ==
    /\ TypoTitle =>
          /\ tried = <<>>
          /\ pc # "request"
          /\ Generated => fix = Some(FALLBACK_PATCH)
    /\ (cur > 0 /\ ~TypoTitle /\ fix # None) =>
          /\ tried # <<>>
          /\ tried[Len(tried)].outcome = "valid"
          /\ fix = Some(tried[Len(tried)].content)
    /\ (cur = 1 /\ TypoTitle) => sent = 0

\* the first issue of the run has the title, is in submit_fix with the
\* literal patch, and no completion request was sent
C18_Witness ==
    /\ cur = 1
    /\ TypoTitle
    /\ pc = "clone"
    /\ fix = Some(FALLBACK_PATCH)
    /\ "completion" \notin net
    /\ sent = 0

\* the most steps an issue takes: it is taken up, every provider is asked,
\* the test of line 226, the nine steps of submit_fix, the report
PerIssue == Len(API_CONFIGS) + Len(StepOrder) + 3

\* the most steps left once the loop is at its head
AfterLoop == 1 + (Len(issues) - cur) * PerIssue

\* a bound on the steps the run has left, by where it is
StepsLeft ==
    CASE pc = "exited" -> 0
      [] pc = "loop" -> AfterLoop
      [] pc = "report" -> 1 + AfterLoop
      [] pc \in InSubmit -> (Len(StepOrder) - StepIndex(pc) + 1) + 1 + AfterLoop
      [] pc = "gate" -> Len(StepOrder) + 2 + AfterLoop
      [] pc = "request" ->
            (Len(API_CONFIGS) - api + 1) + Len(StepOrder) + 2 + AfterLoop
      [] pc = "fetch" -> 2 + IssueCap * PerIssue
      [] pc = "probe" -> 3 + IssueCap * PerIssue
      [] pc = "load" -> 4 + IssueCap * PerIssue

\* what holds of the requests in every state, and that a run that has not
\* ended can go on
RequestBudget ==
    /\ Len(tried) <= Len(API_CONFIGS)
    /\ \A j, k \in 1..Len(tried) : j # k => tried[j].api # tried[k].api
    /\ sent <= cur * Len(API_CONFIGS)
    /\ sent <= IssueCap * Len(API_CONFIGS)
    /\ StepsLeft >= 0
    /\ pc # "exited" => ENABLED Next

\* C19: with every external call returning, a run ends: every step lowers
\* a bound on the steps left, and only a run that has ended cannot go on.
\* No provider is asked twice for an issue, and a run sends at most
\* 3 x (number of providers) completion requests.
C19_TerminatesWithinRequestBudget ==
    /\ []RequestBudget
    /\ [][StepsLeft' < StepsLeft]_vars

\* a run with two providers has ended after six completion requests
C19_Witness ==
    /\ pc = "exited"
    /\ exitStatus = 0
    /\ Len(API_CONFIGS) = 2
    /\ sent = IssueCap * Len(API_CONFIGS)

====
